---- MODULE Spec2Model ----
(***************************************************************************)
(* A model of scripts/dodolib: the driver downloaders of netutil.py        *)
(* (GeckoDownloader, ChromeDownloader, download_file), and the filesystem  *)
(* helpers of fsutil.py (unarchive, find_glob, recursive_remove,           *)
(* find_repo_root).                                                        *)
(*                                                                         *)
(* Strings the code takes apart are sequences of tokens: a file name is    *)
(* <<"geckodriver-v", "0.29.0", "-", "linux64", ".tar", ".gz">>, a path is *)
(* <<"/", "rootdir", "/", "project">>.                                     *)
(***************************************************************************)
EXTENDS Integers, Sequences, FiniteSets, TLC

\* ------------------------------------------------------------------ bounds
\* configure() calls made in one process.
MaxOps == 1
\* get_latest_version() calls made from outside go().
MaxLookups == 2
\* go() calls made in one process.
MaxInstalls == 1
\* Chunks in one HTTP response body.
MaxChunks == 1
\* find_glob generators made in one process.
MaxTraversals == 2
\* find_glob and recursive_remove calls made one after the other.
MaxSerial == 1
\* '.git' directories made while the process runs.
MaxGitDirs == 1

\* ------------------------------------------------------- sequence helpers
Last(s) == s[Len(s)]

Contains(s, x) == \E k \in 1..Len(s) : s[k] = x

IsPrefix(s, t) == Len(s) <= Len(t) /\ \A k \in 1..Len(s) : s[k] = t[k]

EndsWith(s, t) ==
    /\ Len(t) <= Len(s)
    /\ \A k \in 1..Len(t) : s[Len(s) - Len(t) + k] = t[k]

NoDuplicates(s) == \A j, k \in 1..Len(s) : j # k => s[j] # s[k]

IndexOf(s, x) == CHOOSE k \in 1..Len(s) : s[k] = x

\* ============================================================ netutil.py
Instances == {"g1", "g2", "c1"}

Family(i) == IF i = "c1" THEN "chrome" ELSE "gecko"

Dirs == {"/tmp", "/drv"}

\* go()'s target_dir argument; its default is None.
Targets == {"None", "/drv"}

\* Versions the gecko latest-release endpoint may redirect to.
Versions == {"0.29.0", "0.30.0"}

\* What the installed browser reports and what the release endpoint answers.
ChromeVersions == {"96.0.4664"}

Releases == {"96.0.4664.45"}

\* Versions configure() is given: a gecko downloader gets a version, the chrome
\* downloader (which never reads its version attribute) a directory alone.
ConfigVersions(i) == IF Family(i) = "gecko" THEN {"latest", "0.29.0"} ELSE {"unset"}

\* platform.uname(): (system, machine) pairs, in and out of the suffix tables.
Platforms ==
    { [system |-> "Linux", machine |-> "x86_64"],
      [system |-> "Linux", machine |-> "x86"],
      [system |-> "Windows", machine |-> "AMD64"],
      [system |-> "Windows", machine |-> "x86"],
      [system |-> "Darwin", machine |-> "arm64"] }

\* The platforms the modelled process runs on.
HostPlatforms ==
    { [system |-> "Linux", machine |-> "x86_64"],
      [system |-> "Windows", machine |-> "AMD64"],
      [system |-> "Darwin", machine |-> "arm64"] }

\* uname.system + '-' + uname.machine
PlatformKey(u) == <<u.system, "-", u.machine>>

WEBDRIVER_GECKO_FILE_SUFFIX_MAP ==
    (<<"Linux", "-", "x86_64">> :> <<"linux64", ".tar", ".gz">>) @@
    (<<"Linux", "-", "x86">> :> <<"linux32", ".tar", ".gz">>) @@
    (<<"Windows", "-", "AMD64">> :> <<"win64", ".zip">>) @@
    (<<"Windows", "-", "x86">> :> <<"win32", ".zip">>)

WEBDRIVER_CHROME_FILE_SUFFIX_MAP ==
    (<<"Linux", "-", "x86_64">> :> <<"linux64", ".zip">>) @@
    (<<"Linux", "-", "x86">> :> <<"linux64", ".zip">>) @@
    (<<"Windows", "-", "AMD64">> :> <<"win32", ".zip">>) @@
    (<<"Windows", "-", "x86">> :> <<"win32", ".zip">>)

SuffixMap(fam) ==
    IF fam = "gecko" THEN WEBDRIVER_GECKO_FILE_SUFFIX_MAP
    ELSE WEBDRIVER_CHROME_FILE_SUFFIX_MAP

\* The dict lookup of basename raises KeyError for a key not in the map.
Supported(fam, u) == PlatformKey(u) \in DOMAIN SuffixMap(fam)

GeckoBasename_NoVersion(version, u) ==
    <<"geckodriver-v", "-">> \o WEBDRIVER_GECKO_FILE_SUFFIX_MAP[PlatformKey(u)]

\* f'geckodriver-v{self.version}-{suffix}'
GeckoBasename(version, u) ==
    <<"geckodriver-v", version, "-">> \o WEBDRIVER_GECKO_FILE_SUFFIX_MAP[PlatformKey(u)]

\* f'chromedriver_{suffix}'
ChromeBasename(u) ==
    <<"chromedriver_">> \o WEBDRIVER_CHROME_FILE_SUFFIX_MAP[PlatformKey(u)]

Basename(fam, version, u) ==
    IF fam = "gecko" THEN GeckoBasename(version, u) ELSE ChromeBasename(u)

\* fsutil.unarchive dispatches on the suffix of the name alone.
ArchiveKind(name) ==
    IF EndsWith(name, <<".tar", ".gz">>) \/ Last(name) = ".tgz" THEN "tar"
    ELSE IF Last(name) = ".zip" THEN "zip"
    ELSE "unsupported"

\* The statements of go(), in program order.
GeckoSteps_MarkerBeforeDelete ==
    <<"resolve", "url", "fetch", "check", "unarchive", "marker", "delete">>

GeckoSteps ==
    <<"resolve", "url", "fetch", "check", "unarchive", "delete", "marker">>

ChromeSteps ==
    <<"query", "lookup", "url", "fetch", "check", "unarchive", "delete", "report">>

GoSteps(fam) == IF fam = "gecko" THEN GeckoSteps ELSE ChromeSteps

\* The statement after step s, "return" after the last one.
NextStep(fam, s) ==
    LET steps == GoSteps(fam)
        k == IndexOf(steps, s)
    IN IF k = Len(steps) THEN "return" ELSE steps[k + 1]

NoResult == [inst |-> "none", val |-> "none"]

NoLookup ==
    [caller |-> "none", ret |-> "none", req |-> FALSE, prevOk |-> NoResult,
     firstBefore |-> "none"]

NoOutcome == [kind |-> "none", at |-> "none", err |-> "none"]

NoCall ==
    [inst |-> "none", target |-> "None", wasLatest |-> FALSE,
     resolved |-> "none", dir |-> "none", name |-> <<>>, release |-> "none",
     chunks |-> 0, opened |-> FALSE]

VARIABLES
    uname,       \* platform.uname() of the process
    cfg,         \* per downloader: the attributes directory and version
    pc,          \* the statement the running call is at, "idle" between calls
    cur,         \* the running (or last) go() call: its locals
    trace,       \* the steps the running (or last) go() call attempted
    done,        \* the steps of it that completed
    outcome,     \* how the last call ended
    disk,        \* the files of the download directories: path -> content
    lru,         \* get_latest_version's lru_cache(maxsize=1): at most one entry
    glv,         \* the last get_latest_version() call: who, what it returned,
                 \* whether it made a request, and what had been returned before
    lastOk,      \* the last value get_latest_version returned, and to whom
    firstRes,    \* the first value get_latest_version returned
    nops,        \* configure() calls made
    nlook,       \* get_latest_version() calls made from outside go()
    ninst        \* go() calls made

dlvars ==
    <<uname, cfg, pc, cur, trace, done, outcome, disk, lru, glv,
      lastOk, firstRes, nops, nlook, ninst>>

VARIABLES
    flavor,      \* the os module in use: "posix" (os.sep '/') or "nt" (os.sep '\')
    fsys,        \* the directory tree: path (a sequence of names) -> "dir" or "file"
    cwd,         \* the working directory of the process, os.getcwd()
    rpc,         \* find_repo_root: "idle", "walk" (in the while loop) or "done"
    rarg,        \* the start_dir argument of the running (or last) call
    curr_dir,    \* its local curr_dir, a string
    rprev,       \* the value curr_dir had one level earlier
    rres,        \* how the last find_repo_root call ended
    rcache,      \* find_repo_root's lru_cache(maxsize=1): at most one entry
    rhist,       \* the calls that returned: the first and the last of them, and
                 \* what these were when the running (or last) call was made
    nfs,         \* '.git' directories made between find_repo_root calls
    gen,         \* per traversal: the frame of its find_glob generator
    ntrav,       \* traversals started
    gorder       \* the traversals whose generator is not finished, in the order
                 \* they started; whether each one that finished since none was
                 \* running was the last one started; the working directory
                 \* when none was running

repovars == <<flavor, rpc, rarg, curr_dir, rprev, rres, rcache, rhist, nfs>>

globvars == <<gen, ntrav, gorder>>

fsvars == <<fsys, cwd, repovars, globvars>>

FullPath == <<cur.dir, cur.name>>

MarkerPath == <<cur.dir, <<"version">>>>

IsFile_NonEmpty(d, p) == p \in DOMAIN d /\ d[p].size > 0

\* os.path.isfile
IsFile(d, p) == p \in DOMAIN d

WriteFile(d, p, c) == (p :> c) @@ d

RemoveFile_Keeps(d, p) == d

\* os.remove
RemoveFile(d, p) == [q \in DOMAIN d \ {p} |-> d[q]]

DlInit ==
    /\ uname \in HostPlatforms
    /\ cfg = [i \in Instances |->
                [directory |-> "/tmp",
                 version |-> IF Family(i) = "gecko" THEN "latest" ELSE "unset"]]
    /\ pc = "idle"
    /\ cur = NoCall
    /\ trace = <<>>
    /\ done = <<>>
    /\ outcome = NoOutcome
    /\ disk = <<>>
    /\ lru = <<>>
    /\ glv = NoLookup
    /\ lastOk = NoResult
    /\ firstRes = "none"
    /\ nops = 0
    /\ nlook = 0
    /\ ninst = 0

Raise_Retry(at, err) ==
    /\ pc' = at
    /\ UNCHANGED outcome

\* An exception leaves go(): nothing in go() catches it.
Raise(at, err) ==
    /\ pc' = "idle"
    /\ outcome' = [kind |-> "raised", at |-> at, err |-> err]

\* Step s of the running call completed.
Advance(s) ==
    LET n == NextStep(Family(cur.inst), s)
    IN /\ done' = Append(done, s)
       /\ IF n = "return"
          THEN /\ pc' = "idle"
               /\ outcome' = [kind |-> "returned", at |-> s, err |-> "none"]
          ELSE /\ pc' = n
               /\ UNCHANGED outcome

\* The locals of the last go() call are gone when the next operation starts.
ForgetCall ==
    /\ cur' = NoCall
    /\ trace' = <<>>
    /\ done' = <<>>
    /\ outcome' = NoOutcome

\* DriverDownloader.configure(directory=d, version=v)
Configure(i, d, v) ==
    /\ pc = "idle"
    /\ nops < MaxOps
    /\ nops' = nops + 1
    /\ cfg' = [cfg EXCEPT ![i] = [directory |-> d, version |-> v]]
    /\ ForgetCall
    /\ UNCHANGED <<fsvars, uname, pc, disk, lru, glv, lastOk, firstRes, nlook, ninst>>

CacheHit_Never(i) == FALSE

\* lru_cache keys the call on its argument, self.
CacheHit(i) == lru # <<>> /\ lru[1].key = i

\* get_latest_version() returning v: from the cache, or from the redirect of the
\* latest-release endpoint, which is then the cache's one entry.
LatestVersionReturns(i, v) ==
    /\ \/ /\ CacheHit(i)
          /\ v = lru[1].val
          /\ UNCHANGED lru
          /\ glv' = [caller |-> i, ret |-> v, req |-> FALSE, prevOk |-> lastOk,
                     firstBefore |-> firstRes]
       \/ /\ ~CacheHit(i)
          /\ lru' = <<[key |-> i, val |-> v]>>
          /\ glv' = [caller |-> i, ret |-> v, req |-> TRUE, prevOk |-> lastOk,
                     firstBefore |-> firstRes]
    /\ lastOk' = [inst |-> i, val |-> v]
    /\ firstRes' = IF firstRes = "none" THEN v ELSE firstRes

\* get_latest_version() raising: the request fails, or the status is not 302, or
\* there is no location header. lru_cache keeps no entry for a call that raised.
LatestVersionRaises(i) ==
    /\ ~CacheHit(i)
    /\ glv' = [caller |-> i, ret |-> "raised", req |-> TRUE, prevOk |-> lastOk,
               firstBefore |-> firstRes]
    /\ UNCHANGED <<lru, lastOk, firstRes>>

\* A call of get_latest_version() from outside go().
GetLatestVersion(i) ==
    /\ pc = "idle"
    /\ Family(i) = "gecko"
    /\ nlook < MaxLookups
    /\ nlook' = nlook + 1
    /\ \/ \E v \in Versions : LatestVersionReturns(i, v)
       \/ LatestVersionRaises(i)
    /\ ForgetCall
    /\ UNCHANGED <<fsvars, uname, cfg, pc, disk, nops, ninst>>

\* go(target_dir) is entered. Nothing in go() reads target_dir; the call
\* record keeps it as the argument the call was made with.
GoStart(i, t) ==
    /\ pc = "idle"
    /\ ninst < MaxInstalls
    /\ ninst' = ninst + 1
    /\ pc' = GoSteps(Family(i))[1]
    /\ cur' = [NoCall EXCEPT !.inst = i, !.target = t,
                             !.wasLatest = (cfg[i].version = "latest")]
    /\ trace' = <<>>
    /\ done' = <<>>
    /\ outcome' = NoOutcome
    /\ UNCHANGED <<fsvars, uname, cfg, disk, lru, glv, lastOk, firstRes, nops, nlook>>

\* if self.version == 'latest': self.version = self.get_latest_version()
GeckoResolve ==
    /\ pc = "resolve"
    /\ LET i == cur.inst IN
       \/ /\ cfg[i].version # "latest"
          /\ pc' = NextStep("gecko", "resolve")
          /\ UNCHANGED <<cfg, cur, trace, done, outcome, lru, glv,
                         lastOk, firstRes>>
       \/ /\ cfg[i].version = "latest"
          /\ trace' = Append(trace, "resolve")
          /\ \E v \in Versions :
                /\ LatestVersionReturns(i, v)
                /\ cfg' = [cfg EXCEPT ![i].version = v]
                /\ cur' = [cur EXCEPT !.resolved = v]
                /\ Advance("resolve")
       \/ /\ cfg[i].version = "latest"
          /\ trace' = Append(trace, "resolve")
          /\ LatestVersionRaises(i)
          /\ Raise("resolve", "ResolveError")
          /\ UNCHANGED <<cfg, cur, done>>
    /\ UNCHANGED <<fsvars, uname, disk, nops, nlook, ninst>>

\* get_chrome_version(): platform.system() is compared with 'linux' and
\* 'Windows'; any other system name returns None without spawning anything.
ChromeQuery ==
    /\ pc = "query"
    /\ trace' = Append(trace, "query")
    /\ \/ /\ uname.system \in {"linux", "Windows"}
          /\ \E v \in ChromeVersions : cur' = [cur EXCEPT !.resolved = v]
          /\ Advance("query")
       \/ /\ uname.system \in {"linux", "Windows"}
          /\ Raise("query", "QueryError")
          /\ UNCHANGED <<cur, done>>
       \/ /\ uname.system \notin {"linux", "Windows"}
          /\ cur' = [cur EXCEPT !.resolved = "None"]
          /\ Advance("query")
    /\ UNCHANGED <<fsvars, uname, cfg, disk, lru, glv, lastOk, firstRes, nops, nlook, ninst>>

\* get_latest_release_for_version(chrome_version)
ChromeLookup ==
    /\ pc = "lookup"
    /\ trace' = Append(trace, "lookup")
    /\ \/ /\ \E r \in Releases : cur' = [cur EXCEPT !.release = r]
          /\ Advance("lookup")
       \/ /\ Raise("lookup", "RuntimeError")
          /\ UNCHANGED <<cur, done>>
    /\ UNCHANGED <<fsvars, uname, cfg, disk, lru, glv, lastOk, firstRes, nops, nlook, ninst>>

\* The download URL and fullpath = pjoin(self.directory, self.basename).
BuildUrl ==
    /\ pc = "url"
    /\ trace' = Append(trace, "url")
    /\ LET i == cur.inst IN
       \/ /\ Supported(Family(i), uname)
          /\ cur' = [cur EXCEPT !.dir = cfg[i].directory,
                                !.name = Basename(Family(i), cfg[i].version, uname)]
          /\ Advance("url")
       \/ /\ ~Supported(Family(i), uname)
          /\ Raise("url", "KeyError")
          /\ UNCHANGED <<cur, done>>
    /\ UNCHANGED <<fsvars, uname, cfg, disk, lru, glv, lastOk, firstRes, nops, nlook, ninst>>

\* download_file: requests.get(url, stream=True); resp.raise_for_status()
Fetch ==
    /\ pc = "fetch"
    /\ trace' = Append(trace, "fetch")
    /\ \/ /\ pc' = "open"
          /\ UNCHANGED <<outcome>>
       \/ Raise("fetch", "HTTPError")
    /\ UNCHANGED cur
    /\ UNCHANGED <<fsvars, uname, cfg, done, disk, lru, glv, lastOk, firstRes, nops, nlook, ninst>>

\* download_file: open(path, 'wb') creates the file, or truncates it.
FetchOpen ==
    /\ pc = "open"
    /\ \/ /\ disk' = WriteFile(disk, FullPath, [kind |-> "archive", size |-> 0])
          /\ cur' = [cur EXCEPT !.opened = TRUE]
          /\ pc' = "write"
          /\ UNCHANGED <<outcome>>
       \/ /\ Raise("fetch", "OSError")
          /\ UNCHANGED <<cur, disk>>
    /\ UNCHANGED <<fsvars, uname, cfg, trace, done, lru, glv, lastOk, firstRes, nops, nlook, ninst>>

\* download_file: one turn of the loop over resp.iter_content(): the stream
\* ends, or yields an empty chunk (skipped) or a chunk of data (written), or breaks.
FetchChunk ==
    /\ pc = "write"
    /\ \/ /\ Advance("fetch")
          /\ cur' = [cur EXCEPT !.chunks = 0]
          /\ UNCHANGED <<disk>>
       \/ /\ cur.chunks < MaxChunks
          /\ cur' = [cur EXCEPT !.chunks = @ + 1]
          /\ UNCHANGED <<pc, done, outcome, disk>>
       \/ /\ cur.chunks < MaxChunks
          /\ IsFile(disk, FullPath)
          /\ cur' = [cur EXCEPT !.chunks = @ + 1]
          /\ disk' = [disk EXCEPT ![FullPath].size = @ + 1]
          /\ UNCHANGED <<pc, done, outcome>>
       \/ /\ Raise("fetch", "ConnectionError")
          /\ UNCHANGED <<cur, done, disk>>
    /\ UNCHANGED <<fsvars, uname, cfg, trace, lru, glv, lastOk, firstRes, nops, nlook, ninst>>

\* assert isfile(fullpath)
CheckDownload ==
    /\ pc = "check"
    /\ trace' = Append(trace, "check")
    /\ \/ /\ IsFile(disk, FullPath)
          /\ Advance("check")
       \/ /\ ~IsFile(disk, FullPath)
          /\ Raise("check", "AssertionError")
          /\ UNCHANGED <<done>>
    /\ UNCHANGED <<fsvars, uname, cfg, cur, disk, lru, glv, lastOk, firstRes, nops, nlook, ninst>>

DriverName(fam) == IF fam = "gecko" THEN <<"geckodriver">> ELSE <<"chromedriver">>

\* unarchive(fullpath): the archive reader raises on a file that is missing or
\* is no archive, as every empty file is; extraction goes to dirname(fullpath).
Unarchive ==
    /\ pc = "unarchive"
    /\ trace' = Append(trace, "unarchive")
    /\ \/ /\ ArchiveKind(cur.name) # "unsupported"
          /\ IsFile(disk, FullPath)
          /\ disk[FullPath].size > 0
          /\ disk' = WriteFile(disk, <<cur.dir, DriverName(Family(cur.inst))>>,
                               [kind |-> "driver", size |-> 1])
          /\ Advance("unarchive")
       \/ /\ Raise("unarchive", "ReadError")
          /\ UNCHANGED <<done, disk>>
    /\ UNCHANGED <<fsvars, uname, cfg, cur, lru, glv, lastOk, firstRes, nops, nlook, ninst>>

\* os.remove(fullpath)
DeleteArchive ==
    /\ pc = "delete"
    /\ trace' = Append(trace, "delete")
    /\ \/ /\ IsFile(disk, FullPath)
          /\ disk' = RemoveFile(disk, FullPath)
          /\ Advance("delete")
       \/ /\ Raise("delete", "OSError")
          /\ UNCHANGED <<done, disk>>
    /\ UNCHANGED <<fsvars, uname, cfg, cur, lru, glv, lastOk, firstRes, nops, nlook, ninst>>

\* print('geckodriver ', self.version, sep='', file=fd)
MarkerText(version) == <<"geckodriver ", version>>

\* _save_version_file(fullpath): open(pjoin(dirname(fullpath), 'version'), 'w')
SaveVersionFile ==
    /\ pc = "marker"
    /\ trace' = Append(trace, "marker")
    /\ \/ /\ disk' = WriteFile(disk, MarkerPath,
                               [kind |-> "text", size |-> 1,
                                text |-> MarkerText(cfg[cur.inst].version)])
          /\ Advance("marker")
       \/ /\ Raise("marker", "OSError")
          /\ UNCHANGED <<done, disk>>
    /\ UNCHANGED <<fsvars, uname, cfg, cur, lru, glv, lastOk, firstRes, nops, nlook, ninst>>

\* print('chromedriver version {}'.format(latest_stable_release))
ChromeReport ==
    /\ pc = "report"
    /\ trace' = Append(trace, "report")
    /\ Advance("report")
    /\ UNCHANGED <<fsvars, uname, cfg, cur, disk, lru, glv, lastOk, firstRes, nops, nlook, ninst>>

\* Another process removes the archive once it is downloaded: the filesystem is
\* shared, and the existence check after the fetch is there for this.
EnvRemoveArchive ==
    /\ pc = "check"
    /\ IsFile(disk, FullPath)
    /\ disk' = RemoveFile(disk, FullPath)
    /\ UNCHANGED <<fsvars, uname, cfg, pc, cur, trace, done, outcome, lru, glv,
                   lastOk, firstRes, nops, nlook, ninst>>

\* The statements of go() and download_file after go() is entered.
GeckoGoStep ==
    \/ GeckoResolve
    \/ BuildUrl
    \/ Fetch
    \/ FetchOpen
    \/ FetchChunk
    \/ CheckDownload
    \/ Unarchive
    \/ DeleteArchive
    \/ SaveVersionFile
    \/ EnvRemoveArchive

ChromeGoStep ==
    \/ ChromeQuery
    \/ ChromeLookup
    \/ ChromeReport

\* ============================================================== fsutil.py
\* A path of the tree is the sequence of its names below the filesystem root.
FSROOT == <<>>

Parent(p) == SubSeq(p, 1, Len(p) - 1)

SetMax(S) == CHOOSE m \in S : \A n \in S : n <= m

Tree(dirs, files) ==
    [p \in dirs \cup files |-> IF p \in dirs THEN "dir" ELSE "file"]

\* os.path.isdir
IsDir(f, p) == p \in DOMAIN f /\ f[p] = "dir"

Flavors == {"posix", "nt"}

\* os.sep
Sep == IF flavor = "posix" THEN "/" ELSE "\\"

\* The drive of every path of an nt host.
Drive == "C:"

\* The directories of the find_repo_root tests.
RepoDirs == {FSROOT, <<"project">>, <<"project", "package">>}

\* What a directory holds under the name '.git'.
GitStates == {"none", "dir", "file"}

RepoTree(g) ==
    Tree(RepoDirs \cup {Append(d, ".git") : d \in {e \in RepoDirs : g[e] = "dir"}},
         {Append(d, ".git") : d \in {e \in RepoDirs : g[e] = "file"}})

RepoTrees == {RepoTree(g) : g \in [RepoDirs -> GitStates]}

\* find_repo_root() called with no start_dir (or None, or '').
NoStart == [given |-> FALSE, isabs |-> FALSE, comps |-> <<>>]

\* The start_dir arguments: a path as written, with '.', '..' and empty
\* components (a trailing or doubled separator) where the caller put them.
StartArgs ==
    {NoStart}
      \cup {[given |-> TRUE, isabs |-> TRUE, comps |-> c] :
               c \in {<<>>, <<"project">>, <<"project", "package">>,
                      <<"project", "package", "..">>, <<"project", "">>}}
      \cup {[given |-> TRUE, isabs |-> FALSE, comps |-> c] :
               c \in {<<".">>, <<"package">>}}

\* The components normpath keeps: '' and '.' are dropped, 'x/..' collapses,
\* '..' at the root of an absolute path is dropped.
RECURSIVE NormAcc(_, _, _)
NormAcc(acc, rest, isabs) ==
    IF rest = <<>> THEN acc
    ELSE LET c == Head(rest) IN
         NormAcc(CASE c \in {"", "."} -> acc
                   [] c = ".." /\ acc # <<>> /\ Last(acc) # ".." -> Parent(acc)
                   [] c = ".." /\ (acc = <<>> \/ Last(acc) = "..") /\ isabs -> acc
                   [] OTHER -> Append(acc, c),
                 Tail(rest), isabs)

\* start_dir if start_dir else os.getcwd()
StartDir(a) == IF a.given THEN a ELSE [given |-> TRUE, isabs |-> TRUE, comps |-> cwd]

normpath(a) == [a EXCEPT !.comps = NormAcc(<<>>, a.comps, a.isabs)]

\* abspath joins a relative path to the working directory and normalises.
abspath(a) ==
    IF a.isabs THEN NormAcc(<<>>, a.comps, TRUE)
    ELSE NormAcc(<<>>, cwd \o a.comps, TRUE)

RECURSIVE Joined(_, _)
Joined(comps, sep) ==
    IF comps = <<>> THEN <<>>
    ELSE <<sep, Head(comps)>> \o Joined(Tail(comps), sep)

\* The string of an absolute path: '/', '/project/package'; on nt 'C:\',
\* 'C:\project\package'.
PathString(comps) ==
    LET body == IF comps = <<>> THEN <<Sep>> ELSE Joined(comps, Sep)
    IN  IF flavor = "posix" THEN body ELSE <<Drive>> \o body

NotSep(tok) == tok # Sep

\* The directory the system opens for a path string. On nt a bare drive,
\* 'C:', names the working directory of that drive.
OpenDir(s) ==
    IF flavor = "nt"
    THEN IF s = <<Drive>> THEN cwd ELSE SelectSeq(Tail(s), NotSep)
    ELSE SelectSeq(s, NotSep)

\* {path for path in os.listdir(curr_dir) if _isdir(path)}
ListSubdirs(s) ==
    {Last(p) : p \in {q \in DOMAIN fsys : q # <<>> /\ Parent(q) = OpenDir(s)
                                           /\ fsys[q] = "dir"}}

\* curr_dir.rsplit(os.sep, 1)[0]: what precedes the last separator, the whole
\* string when it holds none.
RSplitHead(s) ==
    LET at == {k \in 1..Len(s) : s[k] = Sep}
    IN  IF at = {} THEN s ELSE SubSeq(s, 1, SetMax(at) - 1)

NoPath == <<"<unset>">>

NoRepoResult == [kind |-> "none", val |-> <<>>, cached |-> FALSE]

\* No call has returned.
NoEntry ==
    [key |-> [given |-> FALSE, isabs |-> TRUE, comps |-> <<"<none>">>],
     val |-> <<>>]

NoHist ==
    [first |-> NoEntry, last |-> NoEntry, firstAtCall |-> NoEntry,
     lastAtCall |-> NoEntry]

\* A value was returned for argument a by the running call.
Returned(a, v) ==
    rhist' = [rhist EXCEPT !.last = [key |-> a, val |-> v],
                           !.first = IF @ = NoEntry THEN [key |-> a, val |-> v]
                                     ELSE @]

RepoIdle ==
    /\ rpc = "idle"
    /\ rarg = NoStart
    /\ curr_dir = <<>>
    /\ rprev = NoPath
    /\ rres = NoRepoResult
    /\ rcache = <<>>
    /\ rhist = NoHist
    /\ nfs = 0

RepoCacheHit_Never(a) == FALSE

\* lru_cache keys the call on its argument as passed.
RepoCacheHit(a) == rcache # <<>> /\ rcache[1].key = a

\* find_repo_root(start_dir) is called with an existing directory: lru_cache
\* answers a call whose argument is the cached one; otherwise the body starts.
FindRepoRoot(a) ==
    /\ rpc \in {"idle", "done"}
    /\ IsDir(fsys, abspath(normpath(StartDir(a))))
    /\ rarg' = a
    /\ rprev' = NoPath
    /\ \/ /\ RepoCacheHit(a)
          /\ rpc' = "done"
          /\ curr_dir' = <<>>
          /\ rres' = [kind |-> "returned", val |-> rcache[1].val, cached |-> TRUE]
          /\ rhist' = [rhist EXCEPT !.firstAtCall = rhist.first,
                                    !.lastAtCall = rhist.last,
                                    !.last = [key |-> a, val |-> rcache[1].val]]
       \/ /\ ~RepoCacheHit(a)
          /\ rpc' = "walk"
          /\ curr_dir' = PathString(abspath(normpath(StartDir(a))))
          /\ rres' = NoRepoResult
          /\ rhist' = [rhist EXCEPT !.firstAtCall = rhist.first,
                                    !.lastAtCall = rhist.last]
    /\ UNCHANGED <<dlvars, flavor, fsys, cwd, rcache, nfs, globvars>>

\* One test of the while loop, with the body when the test passes; the raise
\* after the loop when curr_dir is the empty string.
RepoWalk ==
    /\ rpc = "walk"
    /\ \/ /\ curr_dir = <<>>
          /\ rpc' = "done"
          /\ rres' = [kind |-> "raised", val |-> <<"RuntimeError">>, cached |-> FALSE]
          /\ UNCHANGED <<curr_dir, rprev, rcache, rhist>>
       \/ /\ curr_dir # <<>>
          /\ ".git" \in ListSubdirs(curr_dir)
          /\ rpc' = "done"
          /\ rres' = [kind |-> "returned", val |-> curr_dir, cached |-> FALSE]
          /\ rcache' = <<[key |-> rarg, val |-> curr_dir]>>
          /\ Returned(rarg, curr_dir)
          /\ UNCHANGED <<curr_dir, rprev>>
       \/ /\ curr_dir # <<>>
          /\ ".git" \notin ListSubdirs(curr_dir)
          /\ rprev' = curr_dir
          /\ curr_dir' = RSplitHead(curr_dir)
          /\ UNCHANGED <<rpc, rres, rcache, rhist>>
    /\ UNCHANGED <<dlvars, flavor, fsys, cwd, rarg, nfs, globvars>>

\* Between two calls, somebody makes directory d a repository: mkdir d/.git.
MakeGit(d) ==
    /\ rpc \in {"idle", "done"}
    /\ nfs < MaxGitDirs
    /\ IsDir(fsys, d)
    /\ Append(d, ".git") \notin DOMAIN fsys
    /\ nfs' = nfs + 1
    /\ fsys' = (Append(d, ".git") :> "dir") @@ fsys
    /\ UNCHANGED <<dlvars, flavor, cwd, rpc, rarg, curr_dir, rprev, rres, rcache,
                   rhist, globvars>>

\* ------------------------------------------- find_glob, recursive_remove
\* The tree of the find_glob tests, with a file and a nested match inside
\* __dir1__ ...
GlobTreeDir ==
    Tree({FSROOT, <<"__dir4__">>, <<"project">>, <<"project", "__dir1__">>,
          <<"project", "__dir1__", "__dir1__">>, <<"project", "__dir3__">>,
          <<"project", "__dir22__">>},
         {<<"project", "__dir1__", "mod.pyc">>})

\* ... and the same tree where project/__dir1__ is a file.
GlobTreeFile ==
    Tree({FSROOT, <<"__dir4__">>, <<"project">>, <<"project", "__dir3__">>,
          <<"project", "__dir22__">>},
         {<<"project", "__dir1__">>})

GlobTrees == {GlobTreeDir, GlobTreeFile}

\* The root_dir arguments; nothing is called 'missing'.
RootDirs == {FSROOT, <<"project">>, <<"missing">>}

\* The filter_fn arguments: the default, os.path.isdir (dodo.py), does_qualify
\* of the tests, and a filter that lists the path and so raises on a file.
Filters == {"_anyone", "isdir", "does_qualify", "listdir"}

Kinds == {"find_glob", "recursive_remove"}

\* The characters of a name, those of '__dir' and of '__' taken together.
Chars(name) ==
    CASE name = "__dir1__" -> <<"__dir", "1", "__">>
      [] name = "__dir3__" -> <<"__dir", "3", "__">>
      [] name = "__dir4__" -> <<"__dir", "4", "__">>
      [] name = "__dir22__" -> <<"__dir", "2", "2", "__">>
      [] OTHER -> <<name>>

\* The name part of the pattern '**/__dir?__'.
PATTERN == <<"__dir", "?", "__">>

FnMatch_Any(name, pat) == TRUE

\* fnmatch: '?' stands for one character, every other character for itself.
FnMatch(name, pat) ==
    /\ Len(Chars(name)) = Len(pat)
    /\ \A k \in 1..Len(pat) : pat[k] = "?" \/ pat[k] = Chars(name)[k]

\* glob('**/' + name pattern, recursive=True) in directory base: the entries
\* at any depth below base whose name matches, as paths relative to base.
Glob(f, base, pat) ==
    {SubSeq(p, Len(base) + 1, Len(p)) :
        p \in {q \in DOMAIN f : /\ Len(q) > Len(base)
                                /\ IsPrefix(base, q)
                                /\ FnMatch(Last(q), pat)}}

\* filter_fn(path) raises.
FilterRaises(flt, f, p) == flt = "listdir" /\ ~IsDir(f, p)

FilterAccepts_Eager(flt, f, rel, p) == TRUE

\* filter_fn(path) returns true; rel is the path as yielded by glob, p the
\* entry it names from the working directory.
FilterAccepts(flt, f, rel, p) ==
    CASE flt = "_anyone" -> TRUE
      [] flt = "isdir" -> IsDir(f, p)
      [] flt = "does_qualify" -> IsDir(f, p) /\ rel # <<"__dir3__">>
      [] flt = "listdir" -> IsDir(f, p)

\* What rmtree(p) leaves when it fails on p itself: what was beneath p is gone.
RemoveBeneath(f, p) == [q \in {r \in DOMAIN f : r = p \/ ~IsPrefix(p, r)} |-> f[q]]

RemoveTree_Keeps(f, p) == f

\* shutil.rmtree(p): p and everything beneath it is gone.
RemoveTree(f, p) == [q \in {r \in DOMAIN f : ~IsPrefix(p, r)} |-> f[q]]

\* The traversals of one run.
Trav == 1..MaxTraversals

NoGen ==
    [st |-> "new", kind |-> "none", root_dir |-> FSROOT, filter_fn |-> "none",
     old_cwd |-> FSROOT, pending |-> {}, path |-> <<>>, yielded |-> {},
     err |-> "none", before |-> Tree({FSROOT}, {}), after |-> Tree({FSROOT}, {}),
     end_cwd |-> FSROOT, parent_first |-> TRUE]

GlobIdle ==
    /\ gen = [t \in Trav |-> NoGen]
    /\ ntrav = 0
    /\ gorder = [stack |-> <<>>, nested |-> TRUE, cwd0 |-> FSROOT]

\* A traversal whose generator frame is live on the call stack.
InFlight(t) == gen[t].st \in {"try", "glob", "iter", "yield", "finally"}

\* What is left of a finished generator once a later call has started.
Gone == [NoGen EXCEPT !.st = "ended"]

GetCwd_Root == FSROOT

\* os.getcwd()
GetCwd == cwd

\* list(find_glob(root, ..)) or recursive_remove(root, ..) is called and the
\* generator runs to the try statement: old_cwd = os.getcwd().
Traverse(t, kind, root, flt) ==
    /\ gen[t].st = "new"
    /\ t = ntrav + 1
    /\ ntrav' = t
    /\ gen' = [u \in Trav |->
                 IF u = t
                 THEN [NoGen EXCEPT !.st = "try", !.kind = kind,
                                    !.root_dir = root, !.filter_fn = flt,
                                    !.old_cwd = GetCwd, !.before = fsys]
                 ELSE IF gen[u].st = "ended" THEN Gone ELSE gen[u]]
    /\ gorder' = IF gorder.stack = <<>>
                 THEN [stack |-> <<t>>, nested |-> TRUE, cwd0 |-> cwd]
                 ELSE [gorder EXCEPT !.stack = Append(@, t)]
    /\ UNCHANGED <<dlvars, repovars, fsys, cwd>>

\* os.chdir(root_dir)
Chdir(t) ==
    /\ gen[t].st = "try"
    /\ IF IsDir(fsys, gen[t].root_dir)
       THEN /\ cwd' = gen[t].root_dir
            /\ gen' = [gen EXCEPT ![t].st = "glob"]
       ELSE /\ gen' = [gen EXCEPT ![t].st = "finally",
                                  ![t].err = "FileNotFoundError"]
            /\ UNCHANGED cwd
    /\ UNCHANGED <<dlvars, repovars, fsys, ntrav, gorder>>

\* glob(pattern, recursive=True) returns its list, or fails.
GlobMatches(t) ==
    /\ gen[t].st = "glob"
    /\ \/ gen' = [gen EXCEPT ![t].st = "iter",
                             ![t].pending = Glob(fsys, cwd, PATTERN)]
       \/ gen' = [gen EXCEPT ![t].st = "finally", ![t].err = "GlobError"]
    /\ UNCHANGED <<dlvars, repovars, fsys, cwd, ntrav, gorder>>

\* No path still in the list lies above rel.
ParentsTaken(pending, rel) ==
    \A a \in pending : ~(Len(a) < Len(rel) /\ IsPrefix(a, rel))

\* The for statement takes the next path of the list, in whatever order glob
\* gave, and filter_fn is called on it; the loop ends when none is left.
NextMatch(t) ==
    /\ gen[t].st = "iter"
    /\ \/ /\ gen[t].pending = {}
          /\ gen' = [gen EXCEPT ![t].st = "finally"]
       \/ \E rel \in gen[t].pending :
             LET g == [gen[t] EXCEPT !.pending = @ \ {rel},
                                     !.parent_first = @ /\ ParentsTaken(gen[t].pending, rel)]
                 p == cwd \o rel
             IN  gen' = [gen EXCEPT ![t] =
                    CASE FilterRaises(g.filter_fn, fsys, p) ->
                            [g EXCEPT !.st = "finally", !.err = "FilterError"]
                      [] ~FilterRaises(g.filter_fn, fsys, p)
                           /\ FilterAccepts(g.filter_fn, fsys, rel, p) ->
                            [g EXCEPT !.st = "yield", !.path = rel,
                                      !.yielded = @ \cup {rel}]
                      [] OTHER -> g]
    /\ UNCHANGED <<dlvars, repovars, fsys, cwd, ntrav, gorder>>

\* list() takes the yielded path and asks for the next.
Collect(t) ==
    /\ gen[t].st = "yield"
    /\ gen[t].kind = "find_glob"
    /\ gen' = [gen EXCEPT ![t].st = "iter"]
    /\ UNCHANGED <<dlvars, repovars, fsys, cwd, ntrav, gorder>>

\* rmtree(path) in recursive_remove; it can fail before it has removed
\* anything, or with the content of path removed and path itself left. When
\* it raises, the exception leaves
\* recursive_remove with the generator suspended at its yield.
RmTree(t) ==
    /\ gen[t].st = "yield"
    /\ gen[t].kind = "recursive_remove"
    /\ LET p == cwd \o gen[t].path IN
       \/ /\ IsDir(fsys, p)
          /\ fsys' = RemoveTree(fsys, p)
          /\ gen' = [gen EXCEPT ![t].st = "iter"]
       \/ /\ IsDir(fsys, p)
          /\ gen' = [gen EXCEPT ![t].st = "abandoned", ![t].err = "PermissionError"]
          /\ \/ UNCHANGED fsys
             \/ fsys' = RemoveBeneath(fsys, p)
       \/ /\ p \in DOMAIN fsys /\ fsys[p] = "file"
          /\ gen' = [gen EXCEPT ![t].st = "abandoned",
                                ![t].err = "NotADirectoryError"]
          /\ UNCHANGED fsys
       \/ /\ p \notin DOMAIN fsys
          /\ gen' = [gen EXCEPT ![t].st = "abandoned",
                                ![t].err = "FileNotFoundError"]
          /\ UNCHANGED fsys
    /\ UNCHANGED <<dlvars, repovars, cwd, ntrav, gorder>>

RestoreTarget_RootDir(g) == g.root_dir

\* The argument of the chdir of the finally clause.
RestoreTarget(g) == g.old_cwd

\* finally: os.chdir(old_cwd), which raises when old_cwd is no longer a
\* directory; the generator is finished either way and its locals are gone.
Restore(t) ==
    /\ gorder' = [gorder EXCEPT !.stack = SelectSeq(@, LAMBDA u : u # t),
                                !.nested = @ /\ Last(gorder.stack) = t]
    /\ IF IsDir(fsys, RestoreTarget(gen[t]))
       THEN /\ cwd' = RestoreTarget(gen[t])
            /\ gen' = [gen EXCEPT ![t].st = "ended", ![t].after = fsys,
                                  ![t].pending = {}, ![t].path = <<>>,
                                  ![t].end_cwd = RestoreTarget(gen[t])]
       ELSE /\ UNCHANGED cwd
            /\ gen' = [gen EXCEPT ![t].st = "ended", ![t].after = fsys,
                                  ![t].pending = {}, ![t].path = <<>>,
                                  ![t].end_cwd = cwd,
                                  ![t].err = IF gen[t].st = "abandoned" THEN @
                                             ELSE "FileNotFoundError"]

\* The finally clause, reached from the end of the loop or by an exception
\* raised inside the generator.
Finally(t) ==
    /\ gen[t].st = "finally"
    /\ Restore(t)
    /\ UNCHANGED <<dlvars, repovars, fsys, ntrav>>

\* A suspended generator nobody refers to any more is closed by the
\* interpreter, at a time of its choosing: GeneratorExit is raised at the
\* yield and the finally clause runs.
Finalize(t) ==
    /\ gen[t].st = "abandoned"
    /\ Restore(t)
    /\ UNCHANGED <<dlvars, repovars, fsys, ntrav>>

FsIdle ==
    /\ flavor = "posix"
    /\ fsys = Tree({FSROOT}, {})
    /\ cwd = FSROOT
    /\ RepoIdle
    /\ GlobIdle

\* ================================================================== specs
DlNext ==
    \/ \E i \in Instances, d \in Dirs :
          \E v \in ConfigVersions(i) : Configure(i, d, v)
    \/ \E i \in Instances, t \in Targets : GoStart(i, t)
    \/ GeckoGoStep
    \/ ChromeGoStep

vars == <<dlvars, fsvars>>

Init == DlInit /\ FsIdle

Next == DlNext

\* The downloaders: configure() and go() calls of one single-threaded process.
Spec == Init /\ [][Next]_vars

GeckoInstances == {i \in Instances : Family(i) = "gecko"}

CacheInit ==
    /\ DlInit
    /\ uname = [system |-> "Linux", machine |-> "x86_64"]
    /\ FsIdle

CacheNext ==
    \/ \E i \in GeckoInstances : GetLatestVersion(i)
    \/ \E i \in GeckoInstances, t \in Targets : GoStart(i, t)
    \/ GeckoGoStep

\* The gecko downloaders of one process: get_latest_version() calls made
\* directly and go() installs, in any order.
SpecCache == CacheInit /\ [][CacheNext]_vars

\* No downloader is in use.
DlIdle ==
    /\ DlInit
    /\ uname = [system |-> "Linux", machine |-> "x86_64"]

RepoInit ==
    /\ DlIdle
    /\ flavor \in Flavors
    /\ fsys \in RepoTrees
    /\ cwd \in RepoDirs
    /\ RepoIdle
    /\ GlobIdle

RepoNext ==
    \/ \E a \in StartArgs : FindRepoRoot(a)
    \/ RepoWalk

\* find_repo_root() calls of one process, on a tree nothing else changes.
SpecRepo == RepoInit /\ [][RepoNext]_vars

MemoInit ==
    /\ RepoInit
    /\ flavor = "posix"
    /\ cwd = FSROOT

MemoNext ==
    \/ \E a \in StartArgs : FindRepoRoot(a)
    \/ RepoWalk
    \/ \E d \in RepoDirs : MakeGit(d)

\* find_repo_root() calls of one process on a POSIX host, with repositories
\* being made between the calls.
SpecMemo == MemoInit /\ [][MemoNext]_vars

GlobInit ==
    /\ DlIdle
    /\ flavor = "posix"
    /\ fsys \in GlobTrees
    /\ cwd \in {FSROOT, <<"project">>, <<"project", "__dir1__">>}
    /\ IsDir(fsys, cwd)
    /\ RepoIdle
    /\ GlobIdle

\* No other traversal has its generator frame on the call stack.
Serial(t) == \A u \in Trav \ {t} : ~InFlight(u)

GlobNext ==
    \/ \E t \in Trav, kind \in Kinds, root \in RootDirs, flt \in Filters :
          Serial(t) /\ t <= MaxSerial /\ Traverse(t, kind, root, flt)
    \/ \E t \in Trav : Serial(t) /\ Chdir(t)
    \/ \E t \in Trav : Serial(t) /\ GlobMatches(t)
    \/ \E t \in Trav : Serial(t) /\ NextMatch(t)
    \/ \E t \in Trav : Serial(t) /\ Collect(t)
    \/ \E t \in Trav : Serial(t) /\ RmTree(t)
    \/ \E t \in Trav : Serial(t) /\ Finally(t)
    \/ \E t \in Trav : Serial(t) /\ Finalize(t)

\* find_glob and recursive_remove calls of one single-threaded process, one
\* after the other, on a tree nothing else changes.
SpecGlob == GlobInit /\ [][GlobNext]_vars

\* A tree with one directory to find.
RaceTree == Tree({FSROOT, <<"project">>, <<"project", "__dir3__">>}, {})

RaceInit ==
    /\ DlIdle
    /\ flavor = "posix"
    /\ fsys = RaceTree
    /\ cwd \in {FSROOT, <<"project">>}
    /\ RepoIdle
    /\ GlobIdle

RaceNext ==
    \/ \E t \in Trav, root \in RootDirs :
          Traverse(t, "find_glob", root, "_anyone")
    \/ \E t \in Trav : Chdir(t)
    \/ \E t \in Trav : GlobMatches(t)
    \/ \E t \in Trav : NextMatch(t)
    \/ \E t \in Trav : Collect(t)
    \/ \E t \in Trav : Finally(t)

\* list(find_glob(..)) calls of the threads of one process, their steps
\* interleaved in any way.
SpecRace == RaceInit /\ [][RaceNext]_vars

\* ================================================== claims on netutil.py
GeckoCall == cur.inst # "none" /\ Family(cur.inst) = "gecko"

ChromeCall == cur.inst # "none" /\ Family(cur.inst) = "chrome"

\* The steps C1 names, in the order it names them.
C1_Order ==
    (IF cur.wasLatest THEN <<"resolve">> ELSE <<>>)
        \o <<"fetch", "check", "unarchive", "delete", "marker">>

C1_Named(s) == s \in {"resolve", "fetch", "check", "unarchive", "delete", "marker"}

\* C1: in every GeckoDownloader.go() run the steps are attempted in the order
\* resolve (only when the version is 'latest'), fetch, existence check,
\* unarchive, delete archive, write version marker; the marker is attempted
\* last, after every earlier step of the run has completed, and the marker
\* written holds 'geckodriver ' and the resolved version.
C1_GeckoStepOrder ==
    GeckoCall =>
        /\ IsPrefix(SelectSeq(trace, C1_Named), C1_Order)
        /\ Contains(trace, "marker") =>
              /\ trace[Len(trace)] = "marker"
              /\ \A k \in 1..(Len(trace) - 1) : Contains(done, trace[k])
        /\ Contains(done, "marker") =>
              /\ <<cur.dir, <<"version">>>> \in DOMAIN disk
              /\ disk[<<cur.dir, <<"version">>>>].text
                    = <<"geckodriver ", cfg[cur.inst].version>>
              /\ cfg[cur.inst].version # "latest"
              /\ cur.wasLatest => cfg[cur.inst].version = cur.resolved

\* C1 witness: an install that resolved 'latest' has written its marker.
C1_Witness ==
    GeckoCall /\ cur.wasLatest /\ Contains(done, "marker") /\ outcome.kind = "returned"

\* C2: there is no retry in either downloader: no step of a go() call is
\* attempted twice, and when a step fails the call ends there, raising: the
\* failed step is the last one attempted and it did not complete.
C2_NoRetry ==
    /\ \A j, k \in 1..Len(trace) : j # k => trace[j] # trace[k]
    /\ outcome.kind = "raised" =>
          /\ pc = "idle"
          /\ trace # <<>>
          /\ trace[Len(trace)] = outcome.at
          /\ ~Contains(done, outcome.at)

\* C2 witness: a chrome install whose release lookup failed.
C2_Witness ==
    ChromeCall /\ outcome.kind = "raised" /\ outcome.at = "lookup" /\ Len(trace) = 2

\* C3 as claimed: the install reaches unarchive only with a downloaded file
\* that exists and is not empty.
C3_ZeroByteFailsCheck ==
    pc = "unarchive" =>
        (<<cur.dir, cur.name>> \in DOMAIN disk /\ disk[<<cur.dir, cur.name>>].size > 0)

\* C3 amended: the check after the fetch is of existence alone: with the file
\* missing the install fails there with the assertion's error and unarchive is
\* not attempted; with the file present, empty or not, the install goes on to
\* unarchive.
C3_ExistenceCheck ==
    [][(pc = "check" /\ pc' # "check") =>
          IF <<cur.dir, cur.name>> \in DOMAIN disk
          THEN pc' = "unarchive"
          ELSE /\ pc' = "idle"
               /\ outcome' = [kind |-> "raised", at |-> "check", err |-> "AssertionError"]
               /\ ~Contains(trace', "unarchive")]_vars

\* C3 witness: an empty downloaded file has passed the check.
C3_Witness ==
    /\ pc = "unarchive"
    /\ <<cur.dir, cur.name>> \in DOMAIN disk
    /\ disk[<<cur.dir, cur.name>>].size = 0

\* C4 as claimed: once a go() call that opened its archive file has ended,
\* by returning or by raising, that file is not on disk.
C4_ArchiveNeverOutlives ==
    (pc = "idle" /\ outcome.kind \in {"returned", "raised"} /\ cur.opened) =>
        <<cur.dir, cur.name>> \notin DOMAIN disk

\* C4 amended: once a go() call has returned, its archive file is not on disk.
C4_ArchiveGoneOnReturn ==
    outcome.kind = "returned" => <<cur.dir, cur.name>> \notin DOMAIN disk

\* C4 witness: a go() call that wrote its archive has returned.
C4_Witness == outcome.kind = "returned" /\ cur.opened /\ Contains(done, "delete")

\* C5 as claimed: the basename of either family holds the resolved version and
\* the table's suffix.
C5_VersionInBasename ==
    cur.name # <<>> =>
        /\ EndsWith(cur.name, SuffixMap(Family(cur.inst))[PlatformKey(uname)])
        /\ Contains(cur.name, IF GeckoCall THEN cfg[cur.inst].version ELSE cur.release)

\* The part of C5 that is about basename as a function of the version and the
\* platform, over every platform and version.
C5_OnEveryPlatform ==
    /\ \A u \in Platforms, v \in Versions \cup {"latest"} :
          Supported("gecko", u) =>
              /\ Contains(GeckoBasename(v, u), v)
              /\ EndsWith(GeckoBasename(v, u),
                          WEBDRIVER_GECKO_FILE_SUFFIX_MAP[<<u.system, "-", u.machine>>])
    /\ \A u \in Platforms :
          Supported("chrome", u) =>
              /\ \A r \in Releases \cup ChromeVersions : ~Contains(ChromeBasename(u), r)
              /\ EndsWith(ChromeBasename(u),
                          WEBDRIVER_CHROME_FILE_SUFFIX_MAP[<<u.system, "-", u.machine>>])

\* C5 amended: on a pair of the family's suffix table the basename ends with
\* the table's suffix; the gecko basename holds the version, the chrome
\* basename holds no version; on a pair not in the table basename raises
\* KeyError and go() gets no name.
C5_BasenameContents ==
    /\ C5_OnEveryPlatform
    /\ cur.name # <<>> =>
          /\ <<uname.system, "-", uname.machine>> \in DOMAIN SuffixMap(Family(cur.inst))
          /\ EndsWith(cur.name,
                      SuffixMap(Family(cur.inst))[<<uname.system, "-", uname.machine>>])
          /\ GeckoCall => Contains(cur.name, cfg[cur.inst].version)
          /\ ChromeCall => ~Contains(cur.name, cur.release)
    /\ (cur.inst # "none" /\ Contains(trace, "url")
          /\ <<uname.system, "-", uname.machine>> \notin DOMAIN SuffixMap(Family(cur.inst))) =>
          /\ cur.name = <<>>
          /\ outcome = [kind |-> "raised", at |-> "url", err |-> "KeyError"]

\* C5 witness: a chrome install has computed its basename.
C5_Witness == ChromeCall /\ cur.name # <<>> /\ cur.release \in Releases

\* C6 as claimed: once get_latest_version() has returned a value, no later call
\* by any instance makes a request, and each returns that first value.
C6_ProcessWideCache ==
    (glv.caller # "none" /\ glv.firstBefore # "none") =>
        (~glv.req /\ glv.ret = glv.firstBefore)

\* C6 amended: the cache holds one entry, keyed by the instance: a call by the
\* instance whose call was the last to return a value makes no request and
\* returns that value; a call by any other instance, and any call before the
\* first value was returned, makes a request.
C6_CachePerInstance ==
    glv.caller # "none" =>
        IF glv.prevOk.inst = glv.caller
        THEN ~glv.req /\ glv.ret = glv.prevOk.val
        ELSE glv.req

\* C6 witness: an instance resolved, another resolved after it, and the first
\* one's next call made a request again.
C6_Witness ==
    /\ glv.caller = "g1"
    /\ glv.req
    /\ glv.firstBefore # "none"
    /\ glv.prevOk.inst = "g2"

\* The matching names of the trees, read off the pattern '__dir?__' by hand.
C_MatchingNames == {"__dir1__", "__dir3__", "__dir4__"}

\* Path d of traversal g's initial tree was a directory with a matching name,
\* strictly under root_dir, that the filter's own test (beyond is-directory)
\* lets through.
C_Removable(g, d) ==
    /\ d \in DOMAIN g.before
    /\ g.before[d] = "dir"
    /\ Len(d) > Len(g.root_dir)
    /\ SubSeq(d, 1, Len(g.root_dir)) = g.root_dir
    /\ d[Len(d)] \in C_MatchingNames
    /\ g.filter_fn = "does_qualify" =>
          SubSeq(d, Len(g.root_dir) + 1, Len(d)) # <<"__dir3__">>

C_Returned(g) == g.st = "ended" /\ g.kind = "recursive_remove" /\ g.err = "none"

\* C7: when a find_glob traversal has ended, by running out of matches or by
\* an error of chdir, of glob or of filter_fn, the working directory is the one
\* the traversal found when it started; from the chdir to the finally clause it
\* is root_dir, and before the chdir it is still the original one.
C7_CwdRestored ==
    \A t \in Trav :
        gen[t].kind = "find_glob" =>
            /\ gen[t].st = "ended" => gen[t].end_cwd = gen[t].old_cwd
            /\ gen[t].st \in {"glob", "iter", "yield"} => cwd = gen[t].root_dir
            /\ gen[t].st = "try" => cwd = gen[t].old_cwd

\* A find_glob traversal started outside root_dir was ended by its filter
\* raising.
C7_Witness ==
    \E t \in Trav :
        /\ gen[t].kind = "find_glob"
        /\ gen[t].st = "ended"
        /\ gen[t].err = "FilterError"
        /\ gen[t].old_cwd # gen[t].root_dir

\* C8 as stated: after recursive_remove has returned, every entry that is gone
\* was itself a directory matching the pattern under root that passed the
\* filter.
C8_OnlyMatchesRemoved ==
    \A t \in Trav :
        C_Returned(gen[t]) =>
            \A e \in DOMAIN gen[t].before \ DOMAIN gen[t].after :
                C_Removable(gen[t], e)

\* C8, amended: after recursive_remove has returned, every entry that is gone
\* was such a directory or lay beneath one; every other entry of the initial
\* tree is still there, as it was, and nothing was created.
C8_RemovedWithMatches ==
    \A t \in Trav :
        C_Returned(gen[t]) =>
            /\ \A e \in DOMAIN gen[t].before \ DOMAIN gen[t].after :
                  \E k \in 1..Len(e) : C_Removable(gen[t], SubSeq(e, 1, k))
            /\ DOMAIN gen[t].after \subseteq DOMAIN gen[t].before
            /\ \A e \in DOMAIN gen[t].after : gen[t].after[e] = gen[t].before[e]

\* recursive_remove with the filter of the tests returned, having removed a
\* file along with the directory that held it.
C8_Witness ==
    \E t \in Trav :
        /\ C_Returned(gen[t])
        /\ gen[t].filter_fn = "does_qualify"
        /\ \E e \in DOMAIN gen[t].before \ DOMAIN gen[t].after :
              gen[t].before[e] = "file"

\* The ancestors of a path, itself and the filesystem root included, that hold
\* a directory named '.git'.
C_GitAncestors(comps) ==
    {k \in 0..Len(comps) : IsDir(fsys, Append(SubSeq(comps, 1, k), ".git"))}

\* The normalised absolute start path of the last call, worked out from the
\* argument: the working directory when none was given, the working directory
\* followed by the argument when it is relative; then '' and '.' dropped and
\* 'x/..' collapsed.
C_StartPath ==
    NormAcc(<<>>, IF ~rarg.given \/ ~rarg.isabs THEN cwd \o rarg.comps
                  ELSE rarg.comps, TRUE)

\* C9 as stated, on a POSIX host: a finished find_repo_root call has returned
\* the nearest ancestor of the start path that holds a '.git' directory, the
\* start directory and '/' included, and has raised the not-found error exactly
\* when no ancestor holds one.
C9_NearestAncestor ==
    (flavor = "posix" /\ rpc = "done") =>
        IF C_GitAncestors(C_StartPath) = {}
        THEN rres.kind = "raised"
        ELSE /\ rres.kind = "returned"
             /\ rres.val = PathString(SubSeq(C_StartPath, 1,
                                             SetMax(C_GitAncestors(C_StartPath))))

\* C10 as stated: at every level of the walk after the first, the current
\* path is strictly shorter than the one of the level before.
C10_WalkShortens ==
    (rpc = "walk" /\ rprev # NoPath) => Len(curr_dir) < Len(rprev)

\* C11 as stated: a finished call whose argument is the one of the first call
\* of the process that returned has returned the same value, from the cache,
\* whatever happened in between.
C11_MemoizedPerArgument ==
    (rpc = "done" /\ rhist.firstAtCall.key = rarg) =>
        /\ rres.kind = "returned"
        /\ rres.val = rhist.firstAtCall.val
        /\ rres.cached

\* C11, amended: a call whose argument is the one of the most recent call that
\* returned gets that call's value again without a walk, whatever was made in
\* the tree in between; a call with any other argument walks the tree.
C11_MemoizedLastArgument ==
    /\ (rpc = "done" /\ rhist.lastAtCall.key = rarg) =>
          /\ rres.kind = "returned"
          /\ rres.val = rhist.lastAtCall.val
          /\ rres.cached
    /\ (rpc \in {"walk", "done"} /\ rhist.lastAtCall.key # rarg) => ~rres.cached

\* A call was answered from the cache although a '.git' made since then sits
\* in its start directory, closer than the directory returned.
C11_Witness ==
    /\ rpc = "done"
    /\ rhist.lastAtCall.key = rarg
    /\ nfs > 0
    /\ IsDir(fsys, Append(C_StartPath, ".git"))
    /\ rres.val # PathString(C_StartPath)

\* C12 as stated: when go() was called with a target_dir, the directory the
\* install has written its archive into (and unpacks and writes its marker
\* into) is target_dir.
C12_WritesUnderTarget ==
    (cur.inst # "none" /\ cur.target # "None" /\ cur.opened) =>
        /\ cur.dir = cur.target
        /\ \A p \in DOMAIN disk : p[1] = cur.target

\* The errors of rmtree.
C_RmTreeErrors == {"PermissionError", "NotADirectoryError", "FileNotFoundError"}

\* C13: when rmtree has failed on a yielded path, recursive_remove has raised
\* with that error; the paths yielded before (and what lay beneath them) are
\* gone; nothing else is gone but, possibly, entries beneath the failing path,
\* so the failing path itself and the matches not yet taken are untouched;
\* the matches not yet taken were never passed to the filter.
C13_NoRollback ==
    \A t \in Trav :
        (t = ntrav /\ gen[t].st = "abandoned") =>
            /\ gen[t].kind = "recursive_remove"
            /\ gen[t].err \in C_RmTreeErrors
            /\ gen[t].path \in gen[t].yielded
            /\ gen[t].pending \cap gen[t].yielded = {}
            /\ LET kept == {e \in DOMAIN gen[t].before :
                                \A rel \in gen[t].yielded \ {gen[t].path} :
                                    LET d == gen[t].root_dir \o rel
                                    IN  ~(Len(d) <= Len(e) /\ SubSeq(e, 1, Len(d)) = d)}
                   k == gen[t].root_dir \o gen[t].path
               IN  /\ DOMAIN fsys \subseteq kept
                   /\ \A e \in kept \ DOMAIN fsys :
                         Len(k) < Len(e) /\ SubSeq(e, 1, Len(k)) = k
            /\ \A e \in DOMAIN fsys : fsys[e] = gen[t].before[e]

\* rmtree failed on the third or a later yielded path while a match was still
\* to be taken.
C13_Witness ==
    \E t \in Trav :
        /\ t = ntrav
        /\ gen[t].st = "abandoned"
        /\ Cardinality(gen[t].yielded) >= 3
        /\ gen[t].pending # {}

\* C14 as stated: once recursive_remove has ended, by returning or by an
\* error of rmtree raised while the generator was suspended, the working
\* directory is the one from before the call.
C14_CwdAfterRemove ==
    \A t \in Trav :
        (t = ntrav /\ gen[t].kind = "recursive_remove") =>
            /\ gen[t].st = "abandoned" => cwd = gen[t].old_cwd
            /\ (gen[t].st = "ended"
                  /\ gen[t].err \in {"none", "PermissionError", "NotADirectoryError"}) =>
                  gen[t].end_cwd = gen[t].old_cwd

\* C15: every find_glob traversal that has ended has put back the working
\* directory it saw when it started; and when the traversals in flight
\* together have ended one after the other or strictly nested (the one
\* started last ending first), the working directory after all of them is the
\* one from before the first. (Traversals that interleave otherwise can leave
\* another directory: C15_Witness.)
C15_CwdRace ==
    /\ \A t \in Trav :
          (gen[t].st = "ended" /\ gen[t].err # "FileNotFoundError") =>
              gen[t].end_cwd = gen[t].old_cwd
    /\ (gorder.stack = <<>> /\ ntrav > 0 /\ gorder.nested) => cwd = gorder.cwd0

\* Two traversals were in flight together, the one started first ended first,
\* both have ended and the working directory is not the one from before them.
C15_Witness ==
    /\ ntrav >= 2
    /\ gorder.stack = <<>>
    /\ ~gorder.nested
    /\ \A t \in Trav : t <= ntrav => gen[t].st = "ended"
    /\ cwd # gorder.cwd0

\* C16 as stated: in a ChromeDownloader.go() run on a supported platform
\* (system name 'Linux' or 'Windows') the query of the installed browser comes
\* before the release lookup, and the version the lookup URL is built from is
\* a MAJOR.MINOR.PATCH version, never None.
C16_VersionBeforeLookup ==
    (/\ cur.inst # "none"
     /\ Family(cur.inst) = "chrome"
     /\ uname.system \in {"Linux", "Windows"}
     /\ Contains(trace, "lookup")) =>
        /\ \E j, k \in 1..Len(trace) :
              j < k /\ trace[j] = "query" /\ trace[k] = "lookup"
        /\ cur.resolved \in ChromeVersions

\* C17: in a recursive_remove call with the is-directory filter, every path
\* handed to rmtree was a match of the glob taken before the first deletion;
\* rmtree never fails because its path is gone or is no directory; when the
\* list came with every directory before its descendants, no yielded path
\* lies beneath another yielded path (the nested match was skipped); and when
\* the call has returned, no directory under root matches the pattern.
C17_LazyFilter ==
    \A t \in Trav :
        (/\ t = ntrav
         /\ gen[t].kind = "recursive_remove"
         /\ gen[t].filter_fn = "isdir") =>
            /\ gen[t].yielded \subseteq Glob(gen[t].before, gen[t].root_dir, PATTERN)
            /\ gen[t].st = "abandoned" => gen[t].err = "PermissionError"
            /\ gen[t].parent_first =>
                  \A a, b \in gen[t].yielded : ~(Len(a) < Len(b) /\ IsPrefix(a, b))
            /\ (gen[t].st = "ended" /\ gen[t].err = "none") =>
                  \A rel \in Glob(fsys, gen[t].root_dir, PATTERN) :
                      ~IsDir(fsys, gen[t].root_dir \o rel)

\* A call with the is-directory filter has returned; the glob had listed a
\* directory and, after it, a directory beneath it; the first was removed and
\* the second never yielded.
C17_Witness ==
    \E t \in Trav :
        /\ t = ntrav
        /\ gen[t].kind = "recursive_remove"
        /\ gen[t].filter_fn = "isdir"
        /\ gen[t].st = "ended"
        /\ gen[t].err = "none"
        /\ gen[t].parent_first
        /\ \E a \in gen[t].yielded :
              \E b \in Glob(gen[t].before, gen[t].root_dir, PATTERN) \ gen[t].yielded :
                  /\ Len(a) < Len(b)
                  /\ IsPrefix(a, b)
                  /\ IsDir(gen[t].before, gen[t].root_dir \o b)

====
